---- MODULE Spec2Model ----
(***************************************************************************)
(* A model of main.py: the start-up of the module (credential check and    *)
(* knowledge-base load), the three agents, the orchestrator's              *)
(* process_query and the command-line front end.                           *)
(*                                                                         *)
(* Text is modelled as a sequence of one-character strings, so that        *)
(* str.upper, str.lower, str.strip, str.split, str.join and the substring  *)
(* test are computed character by character, as Python computes them.      *)
(***************************************************************************)
EXTENDS Integers, Sequences, FiniteSets, TLC

\* ---------------------------------------------------------------- bounds
\* Longest backend text, in chunks of ResponseChunks, in SpecMatcher.
MaxChunks == 3
\* Operations (lines read by the loop, or calls made by a library user) per run.
MaxOps == 2

\* ------------------------------------------------------------ str methods

LowerChars == <<"a","b","c","d","e","f","g","h","i","j","k","l","m","n","o","p","q","r","s","t","u","v","w","x","y","z">>
UpperChars == <<"A","B","C","D","E","F","G","H","I","J","K","L","M","N","O","P","Q","R","S","T","U","V","W","X","Y","Z">>

\* str.upper / str.lower on one character (ASCII letters).
CharUpper(c) ==
    IF \E i \in DOMAIN LowerChars : LowerChars[i] = c
    THEN UpperChars[CHOOSE i \in DOMAIN LowerChars : LowerChars[i] = c]
    ELSE c
CharLower(c) ==
    IF \E i \in DOMAIN UpperChars : UpperChars[i] = c
    THEN LowerChars[CHOOSE i \in DOMAIN UpperChars : UpperChars[i] = c]
    ELSE c
upper(s) == [i \in 1..Len(s) |-> CharUpper(s[i])]
lower(s) == [i \in 1..Len(s) |-> CharLower(s[i])]

\* The characters str.strip() removes.
Whitespace == {" ", "\t", "\n", "\r", "\f"}

RECURSIVE lstrip(_)
lstrip(s) == IF s # <<>> /\ Head(s) \in Whitespace THEN lstrip(Tail(s)) ELSE s
RECURSIVE rstrip(_)
rstrip(s) ==
    IF s # <<>> /\ s[Len(s)] \in Whitespace THEN rstrip(SubSeq(s, 1, Len(s) - 1)) ELSE s
\* str.strip()
strip(s) == rstrip(lstrip(s))

\* Python's `needle in hay` on strings.
Contains(needle, hay) ==
    \E i \in 1..(Len(hay) - Len(needle) + 1) : SubSeq(hay, i, i + Len(needle) - 1) = needle

\* str.split(sep) for a one-character separator: scans left to right, cutting at
\* each separator; a text without separator is one piece.
RECURSIVE split(_, _)
split(s, sep) ==
    IF \E i \in 1..Len(s) : s[i] = sep
    THEN LET i == CHOOSE k \in 1..Len(s) : s[k] = sep /\ \A j \in 1..(k - 1) : s[j] # sep
         IN  <<SubSeq(s, 1, i - 1)>> \o split(SubSeq(s, i + 1, Len(s)), sep)
    ELSE <<s>>

\* sep.join(parts)
RECURSIVE join(_, _)
join(sep, parts) ==
    IF parts = <<>> THEN <<>>
    ELSE IF Len(parts) = 1 THEN parts[1]
    ELSE parts[1] \o sep \o join(sep, Tail(parts))

\* ------------------------------------------------------- string literals

SENTINEL == <<"N","O","_","N","A","M","E","S","P","A","C","E","_","F","O","U","N","D">>
NoNamespaceLine == <<"T","h","i","s"," ","q","u","e","r","y"," ","h","a","s"," ","n","o"," ","n","a","m","e","s","p","a","c","e">>
MatchPrefix == <<"M","a","t","c","h","i","n","g"," ","N","a","m","e","s","p","a","c","e","s",":"," ">>
PromptPrefix == <<"U","s","e","r"," ","Q","u","e","r","y",":"," ">>
ErrorMarker == <<"E","r","r","o","r",":"," ">>
NotFoundPrefix == <<"E","r","r","o","r",":"," ","C","o","u","l","d"," ","n","o","t"," ","f","i","n","d"," ","d","a","t","a"," ","f","o","r"," ","n","a","m","e","s","p","a","c","e"," ">>
ErrorIn == <<"E","r","r","o","r"," ","i","n"," ">>
ColonSpace == <<":"," ">>
CommaSpace == <<","," ">>
Goodbye == <<"G","o","o","d","b","y","e","!">>
NLGoodbye == <<"\n","G","o","o","d","b","y","e","!">>
CredWarning1 == <<"W","a","r","n","i","n","g",":"," ","G","O","O","G","L","E","_","A","P","I","_","K","E","Y"," ","n","o","t"," ","f","o","u","n","d"," ","i","n"," ","e","n","v","i","r","o","n","m","e","n","t"," ","v","a","r","i","a","b","l","e","s",".">>
CredWarning2 == <<"S","e","t"," ","i","t"," ","w","i","t","h",":"," ","e","x","p","o","r","t"," ","G","O","O","G","L","E","_","A","P","I","_","K","E","Y","=","'","y","o","u","r","-","a","p","i","-","k","e","y","'">>
StoreMissingMsg == <<"E","r","r","o","r",":"," ","d","u","m","m","y","_","d","a","t","a",".","j","s","o","n"," ","n","o","t"," ","f","o","u","n","d","."," ","P","l","e","a","s","e"," ","e","n","s","u","r","e"," ","d","u","m","m","y","_","d","a","t","a",".","j","s","o","n"," ","e","x","i","s","t","s",".">>
Banner1 == <<"\n","M","u","l","t","i","-","A","g","e","n","t"," ","S","y","s","t","e","m"," ","-"," ","I","n","t","e","r","a","c","t","i","v","e"," ","M","o","d","e">>
Banner2 == <<"T","y","p","e"," ","'","e","x","i","t","'"," ","t","o"," ","q","u","i","t","\n">>
EOFMsg == <<"E","O","F"," ","w","h","e","n"," ","r","e","a","d","i","n","g"," ","a"," ","l","i","n","e">>
NameAgent2 == <<"Q","u","e","r","y","A","n","a","l","y","s","i","s","A","g","e","n","t">>
NameAgent3 == <<"N","a","m","e","s","p","a","c","e","R","e","s","p","o","n","s","e","A","g","e","n","t">>
SummaryId == <<"N","a","m","e","s","p","a","c","e"," ","I","D",":"," ">>
SummaryTitle == <<"\n","T","i","t","l","e",":"," ">>
SummaryDescription == <<"\n","D","e","s","c","r","i","p","t","i","o","n",":"," ">>
NotAvailable == <<"N","/","A">>
BlankLine == <<"\n","\n">>
KeyId == <<"n","a","m","e","s","p","a","c","e","_","i","d">>
KeyTitle == <<"t","i","t","l","e">>
KeyDescription == <<"d","e","s","c","r","i","p","t","i","o","n">>
KeyContent == <<"c","o","n","t","e","n","t">>
SynthPrompt1 == <<"\n","U","s","e","r"," ","Q","u","e","r","y",":"," ">>
SynthPrompt2 == <<"\n","\n","N","a","m","e","s","p","a","c","e"," ","D","a","t","a",":","\n">>
SynthPrompt3 == <<"\n","\n","B","a","s","e","d"," ","o","n"," ","t","h","e"," ","n","a","m","e","s","p","a","c","e"," ","d","a","t","a"," ","a","b","o","v","e",","," ","p","r","o","v","i","d","e"," ","a"," ","c","o","m","p","r","e","h","e","n","s","i","v","e"," ","a","n","s","w","e","r"," ","t","o"," ","t","h","e"," ","u","s","e","r","'","s"," ","q","u","e","r","y",".">>
JsonOpen == <<"{","\n">>
JsonIndent == <<" "," ","\"">>
JsonMid == <<"\"",":"," ","\"">>
JsonQuote == <<"\"">>
JsonSep == <<",","\n">>
JsonClose == <<"\n","}">>
JsonEmpty == <<"{","}">>
ExitWord == <<"e","x","i","t">>
QuitWord == <<"q","u","i","t">>
QWord == <<"q">>

\* ------------------------------------------------------------ Python values
\* Optional[...]: None, or a value.
None == [some |-> FALSE, val |-> <<>>]
Some(v) == [some |-> TRUE, val |-> v]

\* A dict is a sequence of <<key, value>> pairs in insertion order.
DictHas(d, key) == \E i \in DOMAIN d : d[i][1] = key
\* dict.get(key, default)
DictGet(d, key, default) ==
    IF DictHas(d, key) THEN d[CHOOSE i \in DOMAIN d : d[i][1] = key][2] ELSE default

\* json.dumps(d, indent=2) of a dict whose values are strings.
json_dumps(d) ==
    IF d = <<>> THEN JsonEmpty
    ELSE JsonOpen
         \o join(JsonSep, [i \in DOMAIN d |->
                               JsonIndent \o d[i][1] \o JsonMid \o d[i][2] \o JsonQuote])
         \o JsonClose

\* -------------------------------------------------- knowledge-store files
NsA == << <<KeyId, <<"a">>>>, <<KeyTitle, <<"P">>>>, <<KeyDescription, <<"m">>>>,
          <<KeyContent, <<"x">>>> >>
NsB == << <<KeyId, <<"b">>>>, <<KeyDescription, <<"c", " ">>>> >>
NsA2 == << <<KeyId, <<"a">>>>, <<KeyTitle, <<"Q">>>>, <<KeyDescription, <<"m">>>> >>

\* Documents dummy_data.json may hold: keyed "namespaces", keyed "dataset", keyed
\* both (with a repeated namespace_id), and keyed neither.
StoreDocuments ==
    { << <<"namespaces", <<NsA, NsB>>>> >>,
      << <<"dataset", <<NsA, NsB>>>> >>,
      << <<"dataset", <<NsB>>>>, <<"namespaces", <<NsA, NsA2>>>> >>,
      << <<"version", <<>>>> >> }

\* What open("dummy_data.json") / json.load can meet.
StoreFiles ==
    {[kind |-> "absent", doc |-> <<>>], [kind |-> "malformed", doc |-> <<>>]}
    \cup {[kind |-> "ok", doc |-> d] : d \in StoreDocuments}

\* Values os.getenv('GOOGLE_API_KEY') can return: None, '' or a key.
ApiKeys == {"unset", "empty", "set"}

\* Namespace ids and queries handed to the operations.
Ids == {<<"a">>, <<"b">>, <<"z">>}
Queries == {<<"a">>, <<" ", "b">>}

\* ----------------------------------------------------- generation backend
\* What model.generate_content(prompt) / response.text can do: return text, raise
\* an Exception with a message, or be interrupted (KeyboardInterrupt).
Ok(t) == [kind |-> "ok", text |-> t]
Fail(t) == [kind |-> "fail", text |-> t]
Interrupt == [kind |-> "interrupt", text |-> <<>>]

\* Backend behaviours of a whole-system run.
SystemOutcomes ==
    { Ok(<<"a", ",", "b">>), Ok(<<" ", "b", " ", ",", ",", "b", "\n">>),
      Ok(<<"x", " ">> \o lower(SENTINEL) \o <<".">>),
      Fail(<<"k", ",", " ">>), Fail(SENTINEL), Interrupt }

\* Backend texts of the matcher runs: every concatenation of at most MaxChunks
\* chunks, the sentinel appearing whole, in other letter cases, and in halves.
ResponseChunks ==
    { SENTINEL, lower(SENTINEL), <<"N", "o", "_">> \o SubSeq(lower(SENTINEL), 4, Len(SENTINEL)),
      SubSeq(SENTINEL, 1, 12), SubSeq(SENTINEL, 13, Len(SENTINEL)),
      <<",">>, <<" ">>, <<"a">>, <<"b">> }
RECURSIVE Flatten(_)
Flatten(ss) == IF ss = <<>> THEN <<>> ELSE Head(ss) \o Flatten(Tail(ss))
MatcherTexts ==
    {Flatten(cs) : cs \in UNION {[1..n -> ResponseChunks] : n \in 0..MaxChunks}}
MatcherOutcomes == {Ok(t) : t \in MatcherTexts} \cup {Fail(t) : t \in MatcherTexts}

\* ---------------------------------------------------------------- data layer
\* A variant that prefers the "dataset" key.
Namespaces_dataset_first(D) == DictGet(D, "dataset", DictGet(D, "namespaces", <<>>))

\* DATA.get("namespaces", DATA.get("dataset", []))
Namespaces(D) == DictGet(D, "namespaces", DictGet(D, "dataset", <<>>))

get_namespace_summaries(D) ==
    LET namespaces == Namespaces(D)
        summary(ns) ==
            <<"\n">> \o SummaryId \o DictGet(ns, KeyId, NotAvailable)
            \o SummaryTitle \o DictGet(ns, KeyTitle, NotAvailable)
            \o SummaryDescription \o DictGet(ns, KeyDescription, NotAvailable) \o <<"\n">>
    IN  join(BlankLine, [i \in DOMAIN namespaces |-> strip(summary(namespaces[i]))])

get_namespace_data(D, namespace_id) ==
    LET namespaces == Namespaces(D)
        hit(i) == DictHas(namespaces[i], KeyId) /\ DictGet(namespaces[i], KeyId, <<>>) = namespace_id
    IN  IF \E i \in DOMAIN namespaces : hit(i)
        THEN Some(namespaces[CHOOSE i \in DOMAIN namespaces :
                                 hit(i) /\ \A j \in 1..(i - 1) : ~hit(j)])
        ELSE None

\* -------------------------------------------------------------------- agents
\* What a method did: its return value, the texts it printed, the backend calls it
\* issued, and whether a KeyboardInterrupt left it.
Did(ret, printed, calls, raised) ==
    [ret |-> ret, printed |-> printed, calls |-> calls, raised |-> raised]

\* A variant that calls the backend a second time after a failure.
generate_retry(name, prompt, outcome) ==
    LET call == [agent |-> name, prompt |-> prompt]
    IN  IF outcome.kind = "ok" THEN Did(strip(outcome.text), <<>>, <<call>>, FALSE)
        ELSE IF outcome.kind = "fail"
        THEN Did(ErrorMarker \o outcome.text,
                 <<ErrorIn \o name \o ColonSpace \o outcome.text>>, <<call, call>>, FALSE)
        ELSE Did(<<>>, <<>>, <<call>>, TRUE)

\* A variant that lets the backend's exception through.
generate_propagates(name, prompt, outcome) ==
    LET call == [agent |-> name, prompt |-> prompt]
    IN  IF outcome.kind = "ok" THEN Did(strip(outcome.text), <<>>, <<call>>, FALSE)
        ELSE Did(<<>>, <<>>, <<call>>, TRUE)

\* Agent.generate
generate(name, prompt, outcome) ==
    LET call == [agent |-> name, prompt |-> prompt]
    IN  IF outcome.kind = "ok" THEN Did(strip(outcome.text), <<>>, <<call>>, FALSE)
        ELSE IF outcome.kind = "fail"
        THEN Did(ErrorMarker \o outcome.text,
                 <<ErrorIn \o name \o ColonSpace \o outcome.text>>, <<call>>, FALSE)
        ELSE Did(<<>>, <<>>, <<call>>, TRUE)

\* UserInteractionAgent.process_input
process_input(user_query) == user_query

\* A variant that tests the response as it is, not uppercased.
no_namespace_found_case_sensitive(response) == Contains(SENTINEL, response)

\* The test `"NO_NAMESPACE_FOUND" in response.upper()`
no_namespace_found(response) == Contains(SENTINEL, upper(response))

\* A variant that drops the empty pieces.
parse_ids_nonempty(response) ==
    LET pieces == split(response, ",")
    IN  SelectSeq([i \in DOMAIN pieces |-> strip(pieces[i])], LAMBDA id : id # <<>>)

\* The comprehension [ns.strip() for ns in response.split(',')]
parse_ids(response) ==
    LET pieces == split(response, ",") IN [i \in DOMAIN pieces |-> strip(pieces[i])]

\* QueryAnalysisAgent.analyze_query
analyze_query(user_query, outcome) ==
    LET prompt == PromptPrefix \o user_query
        g == generate(NameAgent2, prompt, outcome)
        response == strip(g.ret)
    IN  IF g.raised THEN Did(None, <<>>, g.calls, TRUE)
        ELSE IF no_namespace_found(response)
        THEN Did(None, g.printed \o <<NoNamespaceLine>>, g.calls, FALSE)
        ELSE Did(Some(parse_ids(response)), g.printed, g.calls, FALSE)

\* NamespaceResponseAgent.formulate_response
formulate_response(D, namespace_id, user_query, outcome) ==
    LET namespace_data == get_namespace_data(D, namespace_id)
    IN  IF ~namespace_data.some \/ namespace_data.val = <<>>
        THEN Did(NotFoundPrefix \o namespace_id, <<>>, <<>>, FALSE)
        ELSE LET prompt == SynthPrompt1 \o user_query \o SynthPrompt2
                           \o json_dumps(namespace_data.val) \o SynthPrompt3
             IN  generate(NameAgent3, prompt, outcome)

\* A variant that synthesizes an answer for every matched id.
synthesis_targets_all(namespace_ids) == namespace_ids

\* The ids for which process_query invokes agent3.formulate_response: none.
synthesis_targets(namespace_ids) == <<>>

\* A variant that joins the ids by a bare comma.
match_report_comma(namespace_ids) == MatchPrefix \o join(<<",">>, namespace_ids)

\* The report process_query prints for a list of ids.
match_report(namespace_ids) == MatchPrefix \o join(CommaSpace, namespace_ids)

\* --------------------------------------------------------------------- state
VARIABLES
    apiKey,             \* environment: what os.getenv('GOOGLE_API_KEY') returns
    storeFile,          \* environment: dummy_data.json
    argv,               \* how the module is run: [mode, query]
    pool,               \* environment: what the backend can do in this run
    pc,                 \* position of the process
    exitCode,           \* exit status, -1 while running
    DATA,               \* the module-level knowledge base
    loads,              \* number of load_data calls
    agent2_instruction, \* the summaries embedded in agent2's system instruction
    stdout,             \* the text of every print call, in order
    backendLog,         \* every backend call issued: [agent, prompt]
    ops,                \* lines read by the loop / calls made by a library user
    phase,              \* state of the query process_query is handling
    user_query,         \* process_query's argument
    forwarded_query,    \* process_query's local forwarded_query
    namespace_ids,      \* process_query's local namespace_ids
    pqReturn,           \* what process_query returned
    queryOut,           \* the texts printed while process_query handled the query
    queryCalls,         \* the backend calls issued while it handled the query
    queryOutcome,       \* what the backend did at the query's analyze_query call
    synthInvocations,   \* formulate_response calls made by process_query
    lastInput,          \* what input("Query: ") did at the last loop iteration
    loopErrors,         \* exceptions caught at the loop boundary so far
    lastCall            \* the last direct call of a library user and its result

vars == <<apiKey, storeFile, argv, pool, pc, exitCode, DATA, loads, agent2_instruction,
          stdout, backendLog, ops, phase, user_query, forwarded_query, namespace_ids,
          pqReturn, queryOut, queryCalls, queryOutcome, synthInvocations, lastInput,
          loopErrors, lastCall>>

envVars == <<apiKey, storeFile, argv, pool>>
queryVars == <<phase, user_query, forwarded_query, namespace_ids, pqReturn, queryOut,
               queryCalls, queryOutcome, synthInvocations>>

\* How the module is run: with a query on the command line, without arguments, or
\* imported by a program that calls its functions.
Argvs ==
    {[mode |-> "batch", query |-> q] : q \in Queries}
    \cup {[mode |-> "interactive", query |-> <<>>], [mode |-> "api", query |-> <<>>]}

\* What input("Query: ") can do: return a line, raise EOFError, or be interrupted.
Line(t) == [kind |-> "line", text |-> t]
InputEvents ==
    { Line(QWord), Line(<<" ", "Q", " ">>), Line(upper(ExitWord)),
      Line(<<"Q">> \o Tail(QuitWord)), Line(<<>>), Line(<<" ", "\t">>),
      Line(<<"a">>), Line(<<" ", "q", "q">>),
      [kind |-> "error", text |-> EOFMsg], [kind |-> "interrupt", text |-> <<>>] }
NoInput == [kind |-> "none", text |-> <<>>]
NoOutcome == [kind |-> "none", text |-> <<>>]
\* A direct call: the function, its arguments, what it returned (a text or an
\* Optional), what the backend did, the backend calls it issued, and whether a
\* KeyboardInterrupt left it.
Call(op, id, query, text, opt, outcome, calls, raised) ==
    [op |-> op, id |-> id, query |-> query, text |-> text, opt |-> opt,
     outcome |-> outcome, calls |-> calls, raised |-> raised]
NoCall == Call("none", <<>>, <<>>, <<>>, None, NoOutcome, <<>>, FALSE)

\* The words that end the interactive loop.
ExitWords == {ExitWord, QuitWord, QWord}

InitRest ==
    /\ pc = "boot"
    /\ exitCode = -1
    /\ DATA = <<>>
    /\ loads = 0
    /\ agent2_instruction = <<>>
    /\ stdout = <<>>
    /\ backendLog = <<>>
    /\ ops = 0
    /\ phase = "None"
    /\ user_query = <<>>
    /\ forwarded_query = <<>>
    /\ namespace_ids = None
    /\ pqReturn = None
    /\ queryOut = <<>>
    /\ queryCalls = <<>>
    /\ queryOutcome = NoOutcome
    /\ synthInvocations = 0
    /\ lastInput = NoInput
    /\ loopErrors = 0
    /\ lastCall = NoCall

Init ==
    /\ apiKey \in ApiKeys
    /\ storeFile \in StoreFiles
    /\ argv \in Argvs
    /\ pool = SystemOutcomes
    /\ InitRest

\* ------------------------------------------------------------------ start-up
\* A variant that tests `GOOGLE_API_KEY is None`.
credential_is_none(key) == key = "unset"

\* Line 13: `not GOOGLE_API_KEY` is true of None and of the empty string.
credential_missing(key) == key # "set"

\* Lines 12-18: the credential check at import.
CheckCredential ==
    /\ pc = "boot"
    /\ IF ~credential_missing(apiKey)
       THEN /\ pc' = "configured"
            /\ UNCHANGED <<stdout, exitCode>>
       ELSE /\ stdout' = stdout \o <<CredWarning1, CredWarning2>>
            /\ exitCode' = 1
            /\ pc' = "exited"
    /\ UNCHANGED <<envVars, queryVars, DATA, loads, agent2_instruction, backendLog,
                   ops, lastInput, loopErrors, lastCall>>

\* Lines 23-33: DATA = load_data(). A file that is not JSON leaves load_data by an
\* uncaught exception, which ends the interpreter with status 1.
LoadData ==
    /\ pc = "configured"
    /\ loads' = loads + 1
    /\ IF storeFile.kind = "ok"
       THEN /\ DATA' = storeFile.doc
            /\ pc' = "loaded"
            /\ UNCHANGED <<stdout, exitCode>>
       ELSE /\ stdout' = IF storeFile.kind = "absent"
                         THEN stdout \o <<StoreMissingMsg>> ELSE stdout
            /\ exitCode' = 1
            /\ pc' = "exited"
            /\ UNCHANGED DATA
    /\ UNCHANGED <<envVars, queryVars, agent2_instruction, backendLog, ops,
                   lastInput, loopErrors, lastCall>>

\* Lines 242 and 250-251: MultiAgentOrchestrator() builds the three agents (agent2
\* embeds the summaries), and main prints the banner of the interactive mode.
Construct ==
    /\ pc = "loaded"
    /\ agent2_instruction' = get_namespace_summaries(DATA)
    /\ stdout' = IF argv.mode = "interactive" THEN stdout \o <<Banner1, Banner2>> ELSE stdout
    /\ pc' = "idle"
    /\ UNCHANGED <<envVars, queryVars, DATA, loads, exitCode, backendLog,
                   ops, lastInput, loopErrors, lastCall>>

\* ------------------------------------------------------------- process_query
\* A call of MultiAgentOrchestrator.process_query(q): the query is received.
EnterProcessQuery(q) ==
    /\ user_query' = q
    /\ phase' = "Received"
    /\ forwarded_query' = <<>>
    /\ namespace_ids' = None
    /\ pqReturn' = None
    /\ queryOut' = <<>>
    /\ queryCalls' = <<>>
    /\ queryOutcome' = NoOutcome
    /\ synthInvocations' = 0
    /\ pc' = "query"

\* Lines 244-247: main with a query on the command line.
BatchQuery ==
    /\ pc = "idle"
    /\ argv.mode = "batch"
    /\ phase = "None"
    /\ EnterProcessQuery(argv.query)
    /\ UNCHANGED <<envVars, exitCode, DATA, loads, agent2_instruction, stdout, backendLog,
                   ops, lastInput, loopErrors, lastCall>>

\* Line 223: forwarded_query = self.agent1.process_input(user_query)
ProcessInput ==
    /\ pc = "query"
    /\ phase = "Received"
    /\ forwarded_query' = process_input(user_query)
    /\ phase' = "Forwarded"
    /\ UNCHANGED <<envVars, pc, exitCode, DATA, loads, agent2_instruction, stdout,
                   backendLog, ops, user_query, namespace_ids, pqReturn, queryOut,
                   queryCalls, queryOutcome, synthInvocations, lastInput, loopErrors,
                   lastCall>>

\* Line 226: namespace_ids = self.agent2.analyze_query(forwarded_query). A
\* KeyboardInterrupt during the backend call leaves process_query: the interactive
\* loop catches it (lines 264-266), elsewhere it ends the program.
AnalyzeQuery ==
    /\ pc = "query"
    /\ phase = "Forwarded"
    /\ \E outcome \in pool :
        LET r == analyze_query(forwarded_query, outcome)
        IN  /\ queryOutcome' = outcome
            /\ backendLog' = backendLog \o r.calls
            /\ queryCalls' = queryCalls \o r.calls
            /\ IF r.raised
               THEN /\ UNCHANGED <<phase, namespace_ids, queryOut>>
                    /\ IF argv.mode = "interactive"
                       THEN /\ stdout' = stdout \o <<NLGoodbye>>
                            /\ pc' = "done"
                            /\ exitCode' = 0
                       ELSE /\ pc' = "aborted"
                            /\ UNCHANGED <<stdout, exitCode>>
               ELSE /\ namespace_ids' = r.ret
                    /\ phase' = "Analyzed"
                    /\ stdout' = stdout \o r.printed
                    /\ queryOut' = queryOut \o r.printed
                    /\ UNCHANGED <<pc, exitCode>>
    /\ UNCHANGED <<envVars, DATA, loads, agent2_instruction, ops, user_query,
                   forwarded_query, pqReturn, synthInvocations, lastInput, loopErrors,
                   lastCall>>

\* Lines 228-235: report and return. Back in main, the batch run ends (status 0) and
\* the interactive loop goes on to its next iteration.
Report ==
    /\ pc = "query"
    /\ phase = "Analyzed"
    /\ IF ~namespace_ids.some
       THEN /\ phase' = "Unmatched"
            /\ pqReturn' = None
            /\ UNCHANGED <<stdout, queryOut, synthInvocations>>
       ELSE /\ stdout' = stdout \o <<match_report(namespace_ids.val)>>
            /\ queryOut' = queryOut \o <<match_report(namespace_ids.val)>>
            /\ synthInvocations' =
                   synthInvocations + Len(synthesis_targets(namespace_ids.val))
            /\ phase' = IF synthesis_targets(namespace_ids.val) # <<>>
                        THEN "Synthesized" ELSE "Matched"
            /\ pqReturn' = namespace_ids
    /\ IF argv.mode = "batch"
       THEN pc' = "done" /\ exitCode' = 0
       ELSE pc' = "idle" /\ UNCHANGED exitCode
    /\ UNCHANGED <<envVars, DATA, loads, agent2_instruction, backendLog, ops, user_query,
                   forwarded_query, namespace_ids, queryCalls, queryOutcome, lastInput,
                   loopErrors, lastCall>>

\* ---------------------------------------------------------- interactive mode
\* A variant that compares the query as typed.
is_exit_command_as_typed(query) == query \in ExitWords

\* Line 256: query.lower() in ['exit', 'quit', 'q']
is_exit_command(query) == lower(query) \in ExitWords

\* Lines 253-268: one iteration of the loop, up to the call of process_query.
ReadLine ==
    /\ pc = "idle"
    /\ argv.mode = "interactive"
    /\ ops < MaxOps
    /\ \E ev \in InputEvents :
        LET query == strip(ev.text)
        IN  /\ lastInput' = ev
            /\ ops' = ops + 1
            /\ IF ev.kind = "interrupt"
               THEN /\ stdout' = stdout \o <<NLGoodbye>>
                    /\ pc' = "done"
                    /\ exitCode' = 0
                    /\ UNCHANGED <<queryVars, loopErrors>>
               ELSE IF ev.kind = "error"
               THEN /\ stdout' = stdout \o <<ErrorMarker \o ev.text \o <<"\n">>>>
                    /\ loopErrors' = loopErrors + 1
                    /\ UNCHANGED <<pc, exitCode, queryVars>>
               ELSE IF is_exit_command(query)
               THEN /\ stdout' = stdout \o <<Goodbye>>
                    /\ pc' = "done"
                    /\ exitCode' = 0
                    /\ UNCHANGED <<queryVars, loopErrors>>
               ELSE IF query = <<>>
               THEN UNCHANGED <<stdout, pc, exitCode, queryVars, loopErrors>>
               ELSE /\ EnterProcessQuery(query)
                    /\ UNCHANGED <<stdout, exitCode, loopErrors>>
    /\ UNCHANGED <<envVars, DATA, loads, agent2_instruction, backendLog, lastCall>>

\* ------------------------------------------- calls made by an importing program
\* An importing program may call when nothing is running.
LibraryIdle == pc = "idle" /\ argv.mode = "api" /\ ops < MaxOps

\* The effects of one direct call, but for what it does to DATA.
DirectCall(did, call) ==
    /\ ops' = ops + 1
    /\ stdout' = stdout \o did.printed
    /\ backendLog' = backendLog \o did.calls
    /\ lastCall' = call
    /\ pc' = IF did.raised THEN "aborted" ELSE "idle"
    /\ UNCHANGED <<envVars, queryVars, exitCode, loads, agent2_instruction, lastInput,
                   loopErrors>>

\* QueryAnalysisAgent.analyze_query, called directly.
CallAnalyzeQuery ==
    /\ LibraryIdle
    /\ \E q \in Queries, outcome \in pool :
        LET r == analyze_query(q, outcome)
        IN  DirectCall(r, Call("analyze_query", <<>>, q, <<>>, r.ret, outcome, r.calls,
                              r.raised))
    /\ UNCHANGED DATA

\* NamespaceResponseAgent.formulate_response, called directly.
CallFormulateResponse ==
    /\ LibraryIdle
    /\ \E id \in Ids, q \in Queries, outcome \in pool :
        LET r == formulate_response(DATA, id, q, outcome)
        IN  DirectCall(r, Call("formulate_response", id, q, r.ret, None,
                               IF r.calls = <<>> THEN NoOutcome ELSE outcome, r.calls,
                               r.raised))
    /\ UNCHANGED DATA

\* A variant whose lookup takes the records out of the knowledge base.
CallGetNamespaceData_consuming ==
    /\ LibraryIdle
    /\ \E id \in Ids :
        DirectCall(Did(<<>>, <<>>, <<>>, FALSE),
                   Call("get_namespace_data", id, <<>>, <<>>,
                        get_namespace_data(DATA, id), NoOutcome, <<>>, FALSE))
    /\ DATA' = <<>>

\* get_namespace_data, called directly.
CallGetNamespaceData ==
    /\ LibraryIdle
    /\ \E id \in Ids :
        DirectCall(Did(<<>>, <<>>, <<>>, FALSE),
                   Call("get_namespace_data", id, <<>>, <<>>,
                        get_namespace_data(DATA, id), NoOutcome, <<>>, FALSE))
    /\ UNCHANGED DATA

\* get_namespace_summaries, called directly.
CallGetNamespaceSummaries ==
    /\ LibraryIdle
    /\ DirectCall(Did(<<>>, <<>>, <<>>, FALSE),
                  Call("get_namespace_summaries", <<>>, <<>>,
                       get_namespace_summaries(DATA), None, NoOutcome, <<>>, FALSE))
    /\ UNCHANGED DATA

\* MultiAgentOrchestrator.process_query, called directly.
CallProcessQuery ==
    /\ LibraryIdle
    /\ ops' = ops + 1
    /\ \E q \in Queries : EnterProcessQuery(q)
    /\ UNCHANGED <<envVars, exitCode, DATA, loads, agent2_instruction, stdout, backendLog,
                   lastInput, loopErrors, lastCall>>

\* ------------------------------------------------------------ specifications
Next ==
    \/ CheckCredential
    \/ LoadData
    \/ Construct
    \/ BatchQuery
    \/ ProcessInput
    \/ AnalyzeQuery
    \/ Report
    \/ ReadLine
    \/ CallAnalyzeQuery
    \/ CallFormulateResponse
    \/ CallGetNamespaceData
    \/ CallGetNamespaceSummaries
    \/ CallProcessQuery

Spec == Init /\ [][Next]_vars

\* The matcher on its own: the module imported with a key and a store, and a backend
\* that answers every call of the run in one way, drawn from MatcherOutcomes.
MatcherStore == << <<"namespaces", <<NsA, NsB>>>> >>
InitMatcher ==
    /\ apiKey = "set"
    /\ storeFile = [kind |-> "ok", doc |-> MatcherStore]
    /\ argv = [mode |-> "api", query |-> <<>>]
    /\ pool \in {{o} : o \in MatcherOutcomes}
    /\ pc = "idle"
    /\ exitCode = -1
    /\ DATA = MatcherStore
    /\ loads = 1
    /\ agent2_instruction = get_namespace_summaries(MatcherStore)
    /\ stdout = <<>>
    /\ backendLog = <<>>
    /\ ops = 0
    /\ phase = "None"
    /\ user_query = <<>>
    /\ forwarded_query = <<>>
    /\ namespace_ids = None
    /\ pqReturn = None
    /\ queryOut = <<>>
    /\ queryCalls = <<>>
    /\ queryOutcome = NoOutcome
    /\ synthInvocations = 0
    /\ lastInput = NoInput
    /\ loopErrors = 0
    /\ lastCall = NoCall

NextMatcher == CallAnalyzeQuery

SpecMatcher == InitMatcher /\ [][NextMatcher]_vars

\* =================================================================== claims
\* The vocabulary of the claims, stated over positions of the raw backend text.
\* The sentinel occurs in the uppercased text.
HasSentinel(t) ==
    \E i \in 1..Len(t) :
        /\ i + Len(SENTINEL) - 1 <= Len(t)
        /\ \A k \in 1..Len(SENTINEL) : CharUpper(t[i + k - 1]) = SENTINEL[k]

CommaPositions(t) == {i \in 1..Len(t) : t[i] = ","}
\* The position of the k-th comma; 0 before the first, Len(t) + 1 after the last.
Cut(t, k) ==
    IF k = 0 THEN 0
    ELSE IF k > Cardinality(CommaPositions(t)) THEN Len(t) + 1
    ELSE CHOOSE i \in CommaPositions(t) :
             Cardinality({j \in CommaPositions(t) : j <= i}) = k
\* The k-th comma-separated piece with the whitespace around it removed: the part
\* from its first to its last character that is no whitespace.
TrimmedPiece(t, k) ==
    LET inside == {i \in (Cut(t, k - 1) + 1)..(Cut(t, k) - 1) : t[i] \notin Whitespace}
    IN  IF inside = {} THEN <<>>
        ELSE LET first == CHOOSE i \in inside : \A j \in inside : i <= j
                 last == CHOOSE i \in inside : \A j \in inside : j <= i
             IN  [i \in 1..(last - first + 1) |-> t[first + i - 1]]
\* The list of the trimmed pieces of a text.
TrimmedPieces(t) ==
    [k \in 1..(Cardinality(CommaPositions(t)) + 1) |-> TrimmedPiece(t, k)]

\* The last direct call was analyze_query and the backend answered it with a text.
AnalyzedText == lastCall.op = "analyze_query" /\ lastCall.outcome.kind = "ok"

\* C1: whenever the uppercased backend text contains NO_NAMESPACE_FOUND, anywhere and
\* in any letter case, analyze_query returns None, never a list.
C1_SentinelAnywhereIsNoMatch ==
    (AnalyzedText /\ HasSentinel(lastCall.outcome.text)) => lastCall.opt = None

\* C1 witness: a text with the sentinel in another letter case, after other text and
\* a comma, was answered with None.
C1_Witness ==
    /\ AnalyzedText
    /\ HasSentinel(lastCall.outcome.text)
    /\ ~Contains(SENTINEL, lastCall.outcome.text)
    /\ lastCall.outcome.text[1] = "a"
    /\ CommaPositions(lastCall.outcome.text) # {}
    /\ lastCall.opt = None

\* C2: for a backend text without the sentinel, analyze_query returns the list of the
\* comma-separated pieces, trimmed, in order: one element per piece (commas + 1),
\* duplicates and empty pieces kept, whatever the knowledge base holds.
C2_PiecesInOrder ==
    (AnalyzedText /\ ~HasSentinel(lastCall.outcome.text)) =>
        /\ lastCall.opt.some
        /\ Len(lastCall.opt.val) = Cardinality(CommaPositions(lastCall.outcome.text)) + 1
        /\ lastCall.opt.val = TrimmedPieces(lastCall.outcome.text)

\* C2 witness: the text "a,a" gave the list <<"a", "a">>: two pieces, the duplicate
\* kept, and both are ids of the knowledge base's first record.
C2_Witness ==
    /\ AnalyzedText
    /\ lastCall.outcome.text = <<"a", ",", "a">>
    /\ lastCall.opt = Some(<<<<"a">>, <<"a">>>>)

\* What the parsing grammar makes of a text.
Grammar(t) == IF HasSentinel(t) THEN None ELSE Some(TrimmedPieces(t))

\* s begins with prefix p.
HasPrefix(p, s) == Len(s) >= Len(p) /\ SubSeq(s, 1, Len(p)) = p
\* The two report lines of the stdout contract.
IsReport(line) == line = NoNamespaceLine \/ HasPrefix(MatchPrefix, line)
\* The report lines process_query has written for the query it handled.
Reports == SelectSeq(queryOut, IsReport)

\* C3 as stated: process_query writes exactly one report line, "Matching Namespaces: "
\* and the ids joined by commas on a match, "This query has no namespace" otherwise,
\* and returns the MatchResult it reported.
C3_ReportCommaJoined ==
    /\ Len(Reports) <= 1
    /\ phase = "Matched" =>
        /\ pqReturn.some
        /\ pqReturn = namespace_ids
        /\ Reports = <<MatchPrefix \o join(<<",">>, pqReturn.val)>>
    /\ phase = "Unmatched" =>
        /\ pqReturn = None
        /\ pqReturn = namespace_ids
        /\ Reports = <<NoNamespaceLine>>

\* C3 amended: the same, the ids joined by a comma and a space.
C3_ReportCommaSpaceJoined ==
    /\ Len(Reports) <= 1
    /\ phase = "Matched" =>
        /\ pqReturn.some
        /\ pqReturn = namespace_ids
        /\ Reports = <<MatchPrefix \o join(<<",", " ">>, pqReturn.val)>>
    /\ phase = "Unmatched" =>
        /\ pqReturn = None
        /\ pqReturn = namespace_ids
        /\ Reports = <<NoNamespaceLine>>

\* C3 witness: a match on two ids has been reported.
C3_Witness ==
    /\ phase = "Matched"
    /\ pqReturn = Some(<<<<"a">>, <<"b">>>>)
    /\ Reports = <<MatchPrefix \o <<"a", ",", " ", "b">>>>

\* The steps a query's state can take: forward from Received to Forwarded to
\* Analyzed to Matched or Unmatched; only a new query leaves Matched or Unmatched.
PhaseStep ==
    \/ phase' = phase
    \/ phase \in {"None", "Matched", "Unmatched"} /\ phase' = "Received"
    \/ phase = "Received" /\ phase' = "Forwarded"
    \/ phase = "Forwarded" /\ phase' = "Analyzed"
    \/ phase = "Analyzed" /\ phase' \in {"Matched", "Unmatched"}

MatcherCall(q) == [agent |-> NameAgent2, prompt |-> PromptPrefix \o q]

\* C5: analyze_query issues exactly one backend call whether it succeeds or fails,
\* process_input issues none and returns the query unchanged, so process_query
\* issues exactly one call, prompted "User Query: " and the original query.
C5_OneBackendCall ==
    /\ lastCall.op = "analyze_query" => lastCall.calls = <<MatcherCall(lastCall.query)>>
    /\ phase = "Received" => queryCalls = <<>>
    /\ phase \in {"Forwarded", "Analyzed", "Matched", "Unmatched"} =>
           forwarded_query = user_query
    /\ (phase = "Forwarded" /\ queryOutcome.kind = "none") => queryCalls = <<>>
    /\ (phase \in {"Analyzed", "Matched", "Unmatched"} \/ queryOutcome.kind # "none") =>
           queryCalls = <<MatcherCall(user_query)>>

\* C5 witness: a query whose backend call failed has been reported, with one call.
C5_Witness ==
    /\ phase \in {"Matched", "Unmatched"}
    /\ queryOutcome.kind = "fail"
    /\ user_query = <<" ", "b">>
    /\ Len(queryCalls) = 1

\* C6: a failing backend call makes generate return "Error: " and the message as
\* ordinary text, nothing propagates, and the query of a failed matcher call is
\* parsed from that text by the usual grammar and ends Matched or Unmatched.
C6_FailureIsText ==
    /\ (lastCall.op = "analyze_query" /\ lastCall.outcome.kind = "fail") =>
        /\ ~lastCall.raised
        /\ lastCall.opt = Grammar(ErrorMarker \o lastCall.outcome.text)
    /\ (lastCall.op = "formulate_response" /\ lastCall.outcome.kind = "fail") =>
        /\ ~lastCall.raised
        /\ lastCall.text = ErrorMarker \o lastCall.outcome.text
    /\ queryOutcome.kind = "fail" =>
        /\ phase \in {"Analyzed", "Matched", "Unmatched"}
        /\ namespace_ids = Grammar(ErrorMarker \o queryOutcome.text)
        /\ phase = "Matched" => namespace_ids.some
        /\ phase = "Unmatched" => ~namespace_ids.some

\* C6 witness: a query whose backend call failed has ended in Matched, its ids cut
\* from the error text.
C6_Witness ==
    /\ queryOutcome.kind = "fail"
    /\ phase = "Matched"
    /\ HasPrefix(ErrorMarker, namespace_ids.val[1])

\* The records of the stored document: those under "namespaces" if it has that
\* key, else those under "dataset", else none.
StoredRecords ==
    LET under(key) == {storeFile.doc[i][2] : i \in {j \in DOMAIN storeFile.doc :
                                                       storeFile.doc[j][1] = key}}
    IN  IF under("namespaces") # {} THEN UNION {{l[i] : i \in DOMAIN l} : l \in under("namespaces")}
        ELSE UNION {{l[i] : i \in DOMAIN l} : l \in under("dataset")}
\* Some record of the knowledge base carries the id.
IdPresent(id) ==
    \E ns \in StoredRecords : \E f \in DOMAIN ns : ns[f] = <<KeyId, id>>

\* C7: for an id absent from the knowledge base formulate_response returns the
\* not-found message with that id, whatever the query, and issues no backend call;
\* for an id present it issues exactly one backend call and returns its text.
C7_NotFoundMessage ==
    lastCall.op = "formulate_response" =>
        IF IdPresent(lastCall.id)
        THEN /\ Len(lastCall.calls) = 1
             /\ lastCall.calls[1].agent = NameAgent3
             /\ lastCall.outcome.kind = "ok" => lastCall.text = strip(lastCall.outcome.text)
             /\ lastCall.outcome.kind = "fail" =>
                    lastCall.text = ErrorMarker \o lastCall.outcome.text
        ELSE /\ lastCall.calls = <<>>
             /\ lastCall.text = NotFoundPrefix \o lastCall.id
             /\ ~lastCall.raised

\* C7 witness: formulate_response was called with an id no record carries.
C7_Witness ==
    /\ lastCall.op = "formulate_response"
    /\ ~IdPresent(lastCall.id)
    /\ lastCall.id = <<"z">>
    /\ lastCall.text = NotFoundPrefix \o <<"z">>

\* The start-up cannot succeed: no credential, or no knowledge-store file.
FatalStartup == apiKey \in {"unset", "empty"} \/ storeFile.kind = "absent"

\* C8: without credential or without knowledge-store file the process ends with
\* status 1 after its diagnostic, before any query reaches the matcher: no backend
\* call, no analyze_query, and the failed step is not taken again.
C8_FatalStartup ==
    FatalStartup =>
        /\ pc \in {"boot", "configured", "exited"}
        /\ apiKey \in {"unset", "empty"} => pc \in {"boot", "exited"} /\ loads = 0
        /\ loads <= 1
        /\ backendLog = <<>>
        /\ phase = "None"
        /\ lastCall = NoCall
        /\ lastInput = NoInput
        /\ pc = "exited" =>
            /\ exitCode = 1
            /\ stdout = IF apiKey \in {"unset", "empty"}
                        THEN <<CredWarning1, CredWarning2>> ELSE <<StoreMissingMsg>>

\* C8 witness: the process has exited because the key is the empty string.
C8_Witness ==
    /\ apiKey = "empty"
    /\ pc = "exited"
    /\ exitCode = 1

\* The last line read is one of the exit words, in any letter case.
ExitLine ==
    /\ lastInput.kind = "line"
    /\ \E w \in ExitWords : upper(strip(lastInput.text)) = upper(w)

\* C9: the interactive loop ends on exit, quit or q (in any letter case) and on an
\* interrupt, and on nothing else: another error is caught, logged, and the loop
\* goes on to the next query.
C9_LoopEndsOnlyOnExit ==
    argv.mode = "interactive" =>
        /\ pc = "done" =>
               ExitLine \/ lastInput.kind = "interrupt" \/ queryOutcome.kind = "interrupt"
        /\ ExitLine => pc = "done"
        /\ lastInput.kind = "error" =>
            /\ pc = "idle"
            /\ stdout[Len(stdout)] = ErrorMarker \o lastInput.text \o <<"\n">>
        /\ ops > 0 => pc \in {"idle", "query", "done"}
        /\ pc = "done" => exitCode = 0

\* C9 witness: after an error caught by the loop, a later query has been processed.
C9_Witness ==
    /\ argv.mode = "interactive"
    /\ loopErrors > 0
    /\ phase = "Matched"
    /\ pc = "idle"

\* C10: the knowledge base is loaded once and never changes: after any calls, with
\* any backend behaviour, DATA is the document that was loaded.
C10_DataReadOnly ==
    /\ loads <= 1
    /\ pc \in {"loaded", "idle", "query", "done", "aborted"} =>
           loads = 1 /\ DATA = storeFile.doc

\* C10 witness: after a formulate_response that found its record, and an earlier
\* call, DATA is still the loaded document.
C10_Witness ==
    /\ lastCall.op = "formulate_response"
    /\ lastCall.calls # <<>>
    /\ ops = 2
    /\ DATA = storeFile.doc
====
